---- MODULE Spec2Model ----
(***************************************************************************)
(* The access-token gate of src/main.py: the subscribers and magic_links   *)
(* tables, the helpers that read and write them, and the request handlers  *)
(* (/success, /stripe/webhook, /dev/generate-token, /dashboard) that call  *)
(* them; the requests that notify by email (POST /intake, /success, the    *)
(* webhook) and the one that starts a checkout; the contributor intake     *)
(* with its scoring, its rail assignment and its admin pages.              *)
(*                                                                         *)
(* Every helper opens its own connection and commits (conn.commit()), so a *)
(* handler that calls upsert_subscriber_active and then issue_magic_link   *)
(* makes two separately committed writes.  Such a handler is two steps of  *)
(* the model; requests between their two writes are held in `pending`.     *)
(***************************************************************************)
EXTENDS Integers, Sequences, FiniteSets, Bags, TLC

VARIABLES
    now,          \* datetime.utcnow(), in hours since the process started
    subscribers,  \* table subscribers: sequence of rows, id = position
    magic_links,  \* table magic_links: sequence of rows, id = position
    pending,      \* bag of emails: requests that committed the upsert, not yet the token
    todo,         \* bag of requests still to arrive (scenario specifications only)
    resp,         \* response of the gated request being returned, else NoResp
    intake,       \* table intake: sequence of rows, id = position
    reply,        \* the request served with its reply (scenario SpecReplies), else NoReply
    contributors, \* table contributors: sequence of rows, id = position
    listing,      \* rows the admin contributors page is showing, else NoListing
    calc,         \* arguments and result of a direct call of the scoring functions
    posted        \* the forms posted to /contributor, each with the score and rail answered

(* The state of the intake requests and of the contributor pages *)
served == <<intake, reply>>
crm == <<contributors, listing, calc, posted>>

vars == <<now, subscribers, magic_links, pending, todo, resp, served, crm>>

----------------------------------------------------------------------------
(* Bounds of the model *)

MaxLinks == 2      \* rows of magic_links
MaxTime == 36      \* the clock stops here
MaxIntake == 1     \* rows of intake
MaxContributors == 2   \* rows of contributors
MaxScore == 100    \* scores handed to _assign_rail directly: 0..MaxScore

(* hours=24 at every call of issue_magic_link *)
TokenHours == 24
(* The clock is observed twice in the lifetime of a token *)
ClockStep == TokenHours \div 2

----------------------------------------------------------------------------
(* Values *)

None == "<None>"
Emails == {"a@x.io", "b@x.io"}
(* The stripe customer and subscription of an email's checkout *)
CustomerOf(email) == IF email = "b@x.io" THEN "cus_2" ELSE "cus_1"
SubscriptionOf(email) == IF email = "b@x.io" THEN "sub_2" ELSE "sub_1"
SubscriptionIds == {SubscriptionOf(e) : e \in Emails}

EmptyToken == <<>>
(* secrets.token_urlsafe(32): 256 random bits, modelled as a value never  *)
(* returned before (the k-th call returns the k-th token).                *)
token_urlsafe == <<"tok", Len(magic_links) + 1>>
Tokens == {<<"tok", k>> : k \in 1..(MaxLinks + 1)}
TokenInputs == Tokens \cup {EmptyToken}

sha256(s) == <<"sha256", s>>

(* datetime.isoformat() and datetime.fromisoformat(): the TEXT columns    *)
(* hold the formatted value, comparisons are made on the parsed one.      *)
isoformat(t) == <<"iso", t>>
fromisoformat(s) == s[2]
now_iso == isoformat(now)

Max(S) == CHOOSE x \in S : \A y \in S : y <= x
Min(S) == CHOOSE x \in S : \A y \in S : x <= y

----------------------------------------------------------------------------
(* Magic links *)

(* INSERT INTO magic_links (email, token_hash, expires_at, created_at) *)
issue_magic_link(email, hours) ==
    LET token == token_urlsafe
        token_hash == sha256(token)
        expires == isoformat(now + hours)
    IN Append(magic_links,
              [email |-> email, token_hash |-> token_hash,
               expires_at |-> expires, created_at |-> now_iso])

(* Mutants of the expiry test and of the lookup *)
is_expired_at_expiry(expires_at) == now >= expires_at
is_expired_reversed(expires_at) == now < expires_at
select_latest_link(token_hash) ==
    IF Len(magic_links) = 0 THEN {} ELSE {magic_links[Len(magic_links)]}

(* SELECT email, expires_at FROM magic_links WHERE token_hash = ?         *)
(* ORDER BY id DESC LIMIT 1                                               *)
select_magic_link(token_hash) ==
    LET ids == {i \in 1..Len(magic_links) : magic_links[i].token_hash = token_hash}
    IN IF ids = {} THEN {} ELSE {magic_links[Max(ids)]}

is_expired(expires_at) == now > expires_at

(* Mutant: only the newest token of an email is accepted *)
validate_latest_only(token) ==
    LET rows == select_magic_link(sha256(token))
    IN IF rows = {} THEN None
       ELSE LET row == CHOOSE r \in rows : TRUE
                expires_at == fromisoformat(row.expires_at)
                newest == magic_links[Max({i \in 1..Len(magic_links) :
                                             magic_links[i].email = row.email})]
            IN IF is_expired(expires_at) \/ newest # row THEN None ELSE row.email

validate_magic_link(token) ==
    LET rows == select_magic_link(sha256(token))
    IN IF rows = {} THEN None
       ELSE LET row == CHOOSE r \in rows : TRUE
                expires_at == fromisoformat(row.expires_at)
            IN IF is_expired(expires_at) THEN None ELSE row.email

----------------------------------------------------------------------------
(* Subscribers *)

SubscriberIds(email) == {i \in 1..Len(subscribers) : subscribers[i].email = email}

(* Mutant: a row is enough, whatever its status *)
is_subscriber(email) == SubscriberIds(email) # {}

(* SELECT status FROM subscribers WHERE email = ? LIMIT 1 *)
is_active_subscriber(email) ==
    LET ids == SubscriberIds(email)
    IN ids # {} /\ subscribers[Min(ids)].status = "active"

SubscriberRow(email, customer_id, subscription_id, status, created_at) ==
    [email |-> email,
     stripe_customer_id |-> customer_id,
     stripe_subscription_id |-> subscription_id,
     status |-> status,
     created_at |-> created_at, updated_at |-> created_at]

(* Mutants: INSERT OR REPLACE, a plain INSERT, ON CONFLICT DO NOTHING *)
insert_or_replace_subscriber(email, customer_id, subscription_id) ==
    Append(SelectSeq(subscribers, LAMBDA r : r.email # email),
           SubscriberRow(email, customer_id, subscription_id, "active", now_iso))
insert_subscriber(email, customer_id, subscription_id) ==
    Append(subscribers,
           SubscriberRow(email, customer_id, subscription_id, "active", now_iso))
insert_or_ignore_subscriber(email, customer_id, subscription_id) ==
    IF SubscriberIds(email) = {}
    THEN Append(subscribers,
                SubscriberRow(email, customer_id, subscription_id, "active", now_iso))
    ELSE subscribers

(* Mutant: ON CONFLICT leaves the status of the row as it is *)
upsert_subscriber_keep_status(email, customer_id, subscription_id) ==
    IF SubscriberIds(email) = {}
    THEN Append(subscribers,
                SubscriberRow(email, customer_id, subscription_id, "active", now_iso))
    ELSE [i \in 1..Len(subscribers) |->
            IF subscribers[i].email = email
            THEN [subscribers[i] EXCEPT
                    !.stripe_customer_id = customer_id,
                    !.stripe_subscription_id = subscription_id,
                    !.updated_at = now_iso]
            ELSE subscribers[i]]

(* INSERT ... VALUES (?, ?, ?, 'active', ?, ?) ON CONFLICT(email) DO UPDATE *)
(* SET stripe_customer_id, stripe_subscription_id, status, updated_at       *)
upsert_subscriber_active(email, customer_id, subscription_id) ==
    IF SubscriberIds(email) = {}
    THEN Append(subscribers,
                SubscriberRow(email, customer_id, subscription_id, "active", now_iso))
    ELSE [i \in 1..Len(subscribers) |->
            IF subscribers[i].email = email
            THEN [subscribers[i] EXCEPT
                    !.stripe_customer_id = customer_id,
                    !.stripe_subscription_id = subscription_id,
                    !.status = "active",
                    !.updated_at = now_iso]
            ELSE subscribers[i]]

(* Mutant: the UPDATE without its WHERE clause *)
cancel_every_subscription(sub_id) ==
    [i \in 1..Len(subscribers) |->
        [subscribers[i] EXCEPT !.status = "canceled", !.updated_at = now_iso]]

(* UPDATE subscribers SET status='canceled', updated_at=?                 *)
(* WHERE stripe_subscription_id=?                                         *)
cancel_subscription(sub_id) ==
    [i \in 1..Len(subscribers) |->
        IF subscribers[i].stripe_subscription_id = sub_id
        THEN [subscribers[i] EXCEPT !.status = "canceled", !.updated_at = now_iso]
        ELSE subscribers[i]]

----------------------------------------------------------------------------
(* The gate *)

HTMLResponse(body, status_code) == [body |-> body, status_code |-> status_code]
(* Python's None in the position of the error response *)
NoError == HTMLResponse("", 0)

(* Mutant: no test for a missing token *)
require_subscriber_token_unchecked(token) ==
    LET email == validate_magic_link(token)
    IN IF email = None
       THEN [email |-> None, err |-> HTMLResponse("Invalid or expired link.", 401)]
       ELSE IF ~is_active_subscriber(email)
            THEN [email |-> None, err |-> HTMLResponse("Subscription not active.", 403)]
            ELSE [email |-> email, err |-> NoError]

(* Returns the pair (email, err) *)
require_subscriber_token(token) ==
    IF token = EmptyToken
    THEN [email |-> None, err |-> HTMLResponse("Missing token.", 401)]
    ELSE LET email == validate_magic_link(token)
         IN IF email = None
            THEN [email |-> None, err |-> HTMLResponse("Invalid or expired link.", 401)]
            ELSE IF ~is_active_subscriber(email)
                 THEN [email |-> None, err |-> HTMLResponse("Subscription not active.", 403)]
                 ELSE [email |-> email, err |-> NoError]

NoResp == [op |-> "none", token |-> EmptyToken, email |-> None, err |-> NoError]

----------------------------------------------------------------------------
(* Inputs of the handlers *)

(* A checkout session as stripe returns it (/success) or delivers it      *)
(* (checkout.session.completed); email is None when customer_details      *)
(* holds none.                                                            *)
Session(status, email, customer, subscription) ==
    [status |-> status, email |-> email,
     customer |-> customer, subscription |-> subscription]
CheckoutSessions ==
    {Session("complete", e, CustomerOf(e), SubscriptionOf(e)) : e \in Emails}
    \cup {Session("complete", None, "cus_1", "sub_1")}
    \cup {Session("open", "a@x.io", "", "")}
NoSession == Session("", None, "", "")

(* /success: the session Session.retrieve returns, or its failure *)
SuccessInputs ==
    {[retrieved |-> TRUE, session |-> s] : s \in CheckoutSessions}
    \cup {[retrieved |-> FALSE, session |-> NoSession]}

(* str() of the object stripe puts in place of an id that Session.retrieve *)
(* was asked to expand (expand=["customer", "subscription"]): the object's *)
(* JSON text, not its id.                                                  *)
str_expanded(id) ==
    CASE id = "cus_1" -> "{id: cus_1, object: customer}"
      [] id = "cus_2" -> "{id: cus_2, object: customer}"
      [] id = "sub_1" -> "{id: sub_1, object: subscription}"
      [] id = "sub_2" -> "{id: sub_2, object: subscription}"
      [] OTHER -> ""

(* sub.get("id") or "" of a customer.subscription.deleted event *)
DeletedSubscriptionIds == SubscriptionIds \cup {""}

(* /stripe/webhook: the event construct_event returns, or its failure.    *)
(* object is the session of a checkout.session.completed event; id is the *)
(* subscription's id in a customer.subscription.deleted event.            *)
Event(type, object, id) == [type |-> type, object |-> object, id |-> id]
WebhookEvents ==
    {Event("checkout.session.completed", s, "") :
        s \in {x \in CheckoutSessions : x.status = "complete"}}
    \cup {Event("customer.subscription.deleted", NoSession, id) :
            id \in DeletedSubscriptionIds}
    \cup {Event("invoice.paid", NoSession, "")}
WebhookInputs ==
    {[signed |-> TRUE, event |-> ev] : ev \in WebhookEvents}
    \cup {[signed |-> FALSE, event |-> Event("", NoSession, "")]}

(* Configuration: the deployment with stripe and the dev route set up *)
DEV_TOKEN_ENABLED == TRUE
DEV_TOKEN_KEY == "devkey"
DevKeyInputs == {"devkey", "wrong"}
DevEmailInputs == {"a@x.io", " B@X.io", "nobody", ""}
(* _clean(email).lower() on DevEmailInputs *)
clean_lower(s) == CASE s = " B@X.io" -> "b@x.io" [] OTHER -> s
(* "@" in email on the cleaned DevEmailInputs *)
has_at(s) == s \in {"a@x.io", "b@x.io"}

HasRoom == Len(magic_links) + BagCardinality(pending) < MaxLinks

----------------------------------------------------------------------------
(* Notification email *)

(* Configuration: the deployment that sends email *)
EMAIL_USER == "ops@x.io"
EMAIL_PASS == "app-password"

(* What a call of send_email does as its caller sees it: raised tells       *)
(* whether an exception leaves the call, smtp what became of the message.   *)
(* smtp_ok is FALSE when smtplib raises (connection, login, send_message).  *)
Called(raised, smtp) == [raised |-> raised, smtp |-> smtp]
NotCalled == Called(FALSE, "not called")

(* Mutant: no try/except around the SMTP calls *)
send_email_uncaught(smtp_ok) ==
    IF ~(EMAIL_USER # "" /\ EMAIL_PASS # "")
    THEN NotCalled
    ELSE IF smtp_ok THEN Called(FALSE, "sent") ELSE Called(TRUE, "failed")

(* try: ... smtp.send_message(msg)  except Exception as e: print(...) *)
send_email(smtp_ok) ==
    IF ~(EMAIL_USER # "" /\ EMAIL_PASS # "")
    THEN NotCalled
    ELSE IF smtp_ok THEN Called(FALSE, "sent") ELSE Called(FALSE, "failed")

----------------------------------------------------------------------------
(* Replies of the requests that notify or that call stripe *)

JSONResponse(body, status_code) == [body |-> body, status_code |-> status_code]
RedirectResponse(url, status_code) == [body |-> url, status_code |-> status_code]
TemplateResponse(name) == [body |-> name, status_code |-> 200]
HTTPException(status_code, detail) == [body |-> detail, status_code |-> status_code]
(* What the server answers when an exception leaves a handler *)
InternalServerError == [body |-> "Internal Server Error", status_code |-> 500]

(* A request being served: op is its route; upstream tells how its call of  *)
(* stripe ended ("none" when it makes none); email is the address it writes *)
(* to when mails holds; response is what it returns unless an exception     *)
(* leaves it; token is the token its page shows; done holds once the        *)
(* response is returned.                                                    *)
Serving(op, upstream, email, response) ==
    [op |-> op, upstream |-> upstream, email |-> email, mails |-> email # None,
     response |-> response, token |-> EmptyToken, smtp |-> "not called",
     done |-> FALSE]
NoReply ==
    [op |-> "none", upstream |-> "none", email |-> None, mails |-> FALSE,
     response |-> NoError, token |-> EmptyToken, smtp |-> "not called",
     done |-> FALSE]

(* The form posted to /intake *)
IntakeForms ==
    {[name |-> "Ann", email |-> "ann@y.io", service_requested |-> "audit", notes |-> n] :
        n \in {"", "call me"}}
IntakeRow(form) ==
    [name |-> form.name, email |-> form.email,
     service_requested |-> form.service_requested,
     notes |-> form.notes, created_at |-> now_iso]

----------------------------------------------------------------------------
(* Text: a str is the sequence of its characters *)

NoneText == <<None>>       \* Python's None where a str is expected
WhiteSpace == {" ", "\t", "\n", "\r"}

(* s or "" *)
or_empty(s) == IF s = NoneText THEN <<>> ELSE s
(* bool(s) of an Optional[str] *)
truthy(s) == s # NoneText /\ s # <<>>

RECURSIVE lstrip(_)
lstrip(s) ==
    IF s # <<>> /\ Head(s) \in WhiteSpace THEN lstrip(Tail(s)) ELSE s
RECURSIVE rstrip(_)
rstrip(s) ==
    IF s # <<>> /\ s[Len(s)] \in WhiteSpace
    THEN rstrip(SubSeq(s, 1, Len(s) - 1)) ELSE s
strip(s) == rstrip(lstrip(s))

lower_char(c) ==
    CASE c = "A" -> "a"
      [] c = "B" -> "b"
      [] c = "C" -> "c"
      [] c = "D" -> "d"
      [] c = "E" -> "e"
      [] c = "F" -> "f"
      [] c = "G" -> "g"
      [] c = "H" -> "h"
      [] c = "I" -> "i"
      [] c = "J" -> "j"
      [] c = "K" -> "k"
      [] c = "L" -> "l"
      [] c = "M" -> "m"
      [] c = "N" -> "n"
      [] c = "O" -> "o"
      [] c = "P" -> "p"
      [] c = "Q" -> "q"
      [] c = "R" -> "r"
      [] c = "S" -> "s"
      [] c = "T" -> "t"
      [] c = "U" -> "u"
      [] c = "V" -> "v"
      [] c = "W" -> "w"
      [] c = "X" -> "x"
      [] c = "Y" -> "y"
      [] c = "Z" -> "z"
      [] OTHER -> c
lower(s) == [i \in 1..Len(s) |-> lower_char(s[i])]

(* sub in s *)
contains(sub, s) ==
    \E i \in 0..(Len(s) - Len(sub)) : SubSeq(s, i + 1, i + Len(sub)) = sub

(* A text of n characters *)
chars(n) == [i \in 1..n |-> "x"]

(* The literals of the scoring and of the rail assignment *)
t_ecosystem_staff ==
    <<"e", "c", "o", "s", "y", "s", "t", "e", "m", "_", "s", "t", "a", "f",
      "f">>
t_sales_growth ==
    <<"s", "a", "l", "e", "s", "_", "g", "r", "o", "w", "t", "h">>
t_builder_operator ==
    <<"b", "u", "i", "l", "d", "e", "r", "_", "o", "p", "e", "r", "a", "t",
      "o", "r">>
t_partner_vendor ==
    <<"p", "a", "r", "t", "n", "e", "r", "_", "v", "e", "n", "d", "o", "r">>
t_hardware_supply ==
    <<"h", "a", "r", "d", "w", "a", "r", "e", "_", "s", "u", "p", "p", "l",
      "y">>
t_capital_sponsor ==
    <<"c", "a", "p", "i", "t", "a", "l", "_", "s", "p", "o", "n", "s", "o",
      "r">>
t_advisor_specialist ==
    <<"a", "d", "v", "i", "s", "o", "r", "_", "s", "p", "e", "c", "i", "a",
      "l", "i", "s", "t">>
t_not_sure == <<"n", "o", "t", "_", "s", "u", "r", "e">>
t_residual == <<"r", "e", "s", "i", "d", "u", "a", "l">>
t_commission == <<"c", "o", "m", "m", "i", "s", "s", "i", "o", "n">>
t_hourly == <<"h", "o", "u", "r", "l", "y">>
t_equity == <<"e", "q", "u", "i", "t", "y">>
t_revshare == <<"r", "e", "v", "s", "h", "a", "r", "e">>
t_owner_exec == <<"o", "w", "n", "e", "r", "_", "e", "x", "e", "c">>
t_manager_influence ==
    <<"m", "a", "n", "a", "g", "e", "r", "_", "i", "n", "f", "l", "u", "e",
      "n", "c", "e">>
t_partial == <<"p", "a", "r", "t", "i", "a", "l">>
t_sales == <<"s", "a", "l", "e", "s">>
t_closer == <<"c", "l", "o", "s", "e", "r">>
t_intake == <<"i", "n", "t", "a", "k", "e">>
t_ops == <<"o", "p", "s">>
t_client == <<"c", "l", "i", "e", "n", "t">>
t_hardware == <<"h", "a", "r", "d", "w", "a", "r", "e">>
t_finance == <<"f", "i", "n", "a", "n", "c", "e">>

(* Other values of the form's fields *)
t_mentor == <<"m", "e", "n", "t", "o", "r">>
t_Sales_Growth_padded ==
    <<" ", "S", "a", "l", "e", "s", "_", "G", "r", "o", "w", "t", "h", " ">>
t_salary == <<"s", "a", "l", "a", "r", "y">>
t_Hourly_plus_Residual ==
    <<"H", "o", "u", "r", "l", "y", " ", "+", " ", "R", "e", "s", "i", "d",
      "u", "a", "l">>
t_Owner_Exec_padded ==
    <<"O", "w", "n", "e", "r", "_", "E", "x", "e", "c", " ">>
t_observer == <<"o", "b", "s", "e", "r", "v", "e", "r">>
t_Closer == <<"C", "l", "o", "s", "e", "r">>
t_client_ops == <<"c", "l", "i", "e", "n", "t", " ", "o", "p", "s">>
t_presales == <<"p", "r", "e", "s", "a", "l", "e", "s">>
t_yes == <<"y", "e", "s">>
t_blank == <<" ", " ">>

----------------------------------------------------------------------------
(* Contributor scoring and rail assignment *)

(* Mutants of the track weights: every track weighs the default; an unknown *)
(* track weighs 50                                                          *)
track_weights_flat(track) == 10
track_weights_default_50(track) ==
    CASE track \in {t_ecosystem_staff, t_sales_growth} -> 18
      [] track \in {t_builder_operator, t_hardware_supply} -> 16
      [] track \in {t_partner_vendor, t_capital_sponsor} -> 14
      [] track = t_advisor_specialist -> 10
      [] track = t_not_sure -> 8
      [] OTHER -> 50

(* track_weights.get(track, 10) *)
track_weights(track) ==
    CASE track = t_ecosystem_staff -> 18
      [] track = t_sales_growth -> 18
      [] track = t_builder_operator -> 16
      [] track = t_partner_vendor -> 14
      [] track = t_hardware_supply -> 16
      [] track = t_capital_sponsor -> 14
      [] track = t_advisor_specialist -> 10
      [] track = t_not_sure -> 8
      [] OTHER -> 10

comp_bonus(comp) ==
    IF contains(t_residual, comp) THEN 10
    ELSE IF contains(t_commission, comp) THEN 10
    ELSE IF contains(t_hourly, comp) THEN 6
    ELSE IF contains(t_equity, comp) \/ contains(t_revshare, comp) THEN 8
    ELSE 0

(* sum(1 for x in fit_fields if x and str(x).strip()) *)
filled_count(fit_fields) ==
    Cardinality({i \in 1..Len(fit_fields) :
                    truthy(fit_fields[i]) /\ strip(fit_fields[i]) # <<>>})

(* Mutant: ten points for an answer, no ceiling *)
fit_bonus_ten_each(filled) == filled * 10

(* min(16, filled * 2) *)
fit_bonus(filled) == Min({16, filled * 2})

authority_bonus(auth) ==
    IF auth = t_owner_exec THEN 10
    ELSE IF auth = t_manager_influence THEN 6
    ELSE IF auth = t_partial THEN 3
    ELSE 0

_score_contributor_track(contribution_track, comp_plan, assets, website, company, fit_fields, fit_authority) ==
    LET track == lower(strip(or_empty(contribution_track)))
        comp == lower(strip(or_empty(comp_plan)))
        auth == strip(lower(or_empty(fit_authority)))
    IN track_weights(track)
       + comp_bonus(comp)
       + (IF truthy(assets) /\ Len(strip(assets)) > 10 THEN 10 ELSE 0)
       + (IF truthy(website) /\ Len(strip(website)) > 6 THEN 6 ELSE 0)
       + (IF truthy(company) /\ Len(strip(company)) > 2 THEN 4 ELSE 0)
       + fit_bonus(filled_count(fit_fields))
       + authority_bonus(auth)

(* The rules of the score >= 70 band, of the score >= 45 band *)
is_sales(track, pos, lane) ==
    track = t_sales_growth \/ lane = t_sales
    \/ contains(t_sales, pos) \/ contains(t_closer, pos)
is_staff(track, pos) ==
    track = t_ecosystem_staff \/ contains(t_intake, pos)
    \/ contains(t_ops, pos) \/ contains(t_client, pos)
is_hardware(track, lane) == track = t_hardware_supply \/ lane = t_hardware
is_capital(track, lane) == track = t_capital_sponsor \/ lane = t_finance

review_tier(track) ==
    IF track = t_sales_growth THEN "sales_pool"
    ELSE IF track = t_ecosystem_staff THEN "staff_pool"
    ELSE IF track \in {t_partner_vendor, t_hardware_supply} THEN "bd_followup"
    ELSE "review"

(* Mutants: the staff rule before the sales rule; the lower band from 46 *)
_assign_rail_staff_first(contribution_track, position_interest, fit_lane, score) ==
    LET track == lower(strip(or_empty(contribution_track)))
        pos == lower(strip(or_empty(position_interest)))
        lane == lower(strip(or_empty(fit_lane)))
    IN IF score >= 70
       THEN IF is_staff(track, pos) THEN "staff_priority"
            ELSE IF is_sales(track, pos, lane) THEN "sales_priority"
            ELSE IF is_hardware(track, lane) THEN "hardware_supply"
            ELSE IF is_capital(track, lane) THEN "capital"
            ELSE "priority"
       ELSE IF score >= 45 THEN review_tier(track)
       ELSE "triage"
_assign_rail_above_45(contribution_track, position_interest, fit_lane, score) ==
    LET track == lower(strip(or_empty(contribution_track)))
        pos == lower(strip(or_empty(position_interest)))
        lane == lower(strip(or_empty(fit_lane)))
    IN IF score >= 70
       THEN IF is_sales(track, pos, lane) THEN "sales_priority"
            ELSE IF is_staff(track, pos) THEN "staff_priority"
            ELSE IF is_hardware(track, lane) THEN "hardware_supply"
            ELSE IF is_capital(track, lane) THEN "capital"
            ELSE "priority"
       ELSE IF score > 45 THEN review_tier(track)
       ELSE "triage"

_assign_rail(contribution_track, position_interest, fit_lane, score) ==
    LET track == lower(strip(or_empty(contribution_track)))
        pos == lower(strip(or_empty(position_interest)))
        lane == lower(strip(or_empty(fit_lane)))
    IN IF score >= 70
       THEN IF is_sales(track, pos, lane) THEN "sales_priority"
            ELSE IF is_staff(track, pos) THEN "staff_priority"
            ELSE IF is_hardware(track, lane) THEN "hardware_supply"
            ELSE IF is_capital(track, lane) THEN "capital"
            ELSE "priority"
       ELSE IF score >= 45 THEN review_tier(track)
       ELSE "triage"

----------------------------------------------------------------------------
(* Contributors *)

(* The form posted to /contributor.  The six fit answers besides           *)
(* fit_authority and fit_lane: the first k are given, the next holds only   *)
(* blanks, the others are empty.                                            *)
fit_answer(i, k) == IF i <= k THEN t_yes ELSE IF i = k + 1 THEN t_blank ELSE <<>>

ContributorForm(track, pos, comp, assets, website, company, authority, lane, k) ==
    [name |-> "Cy", email |-> "cy@z.io", phone |-> "",
     company |-> company, website |-> website,
     primary_role |-> "operator",
     contribution_track |-> track, position_interest |-> pos,
     comp_plan |-> comp, director_owner |-> "Duece",
     assets |-> assets, regions |-> "", capacity |-> "", alignment |-> "",
     message |-> " two\nlines ",
     fit_access |-> fit_answer(1, k), fit_build_goal |-> fit_answer(2, k),
     fit_opportunity |-> fit_answer(3, k), fit_authority |-> authority,
     fit_lane |-> lane, fit_no_conditions |-> fit_answer(4, k),
     fit_visibility |-> fit_answer(5, k), fit_why_you |-> fit_answer(6, k)]

KnownTracks ==
    {t_ecosystem_staff, t_sales_growth, t_builder_operator, t_partner_vendor,
     t_hardware_supply, t_capital_sponsor, t_advisor_specialist, t_not_sure}
TrackInputs == KnownTracks \cup {t_mentor, t_Sales_Growth_padded, <<>>}
PositionInputs == {<<>>, t_Closer, t_client_ops}
CompInputs ==
    {<<>>, t_residual, t_commission, t_hourly, t_equity, t_revshare,
     t_Hourly_plus_Residual}
AssetsInputs == {<<>>, <<" ">> \o chars(10), chars(11)}
WebsiteInputs == {chars(6), chars(7)}
CompanyInputs == {chars(2), chars(3)}
AuthorityInputs ==
    {<<>>, t_owner_exec, t_Owner_Exec_padded, t_manager_influence, t_partial,
     t_observer}
LaneInputs == {<<>>, t_sales, t_hardware, t_finance}
FitCounts == 0..6


BlankForm == ContributorForm(<<>>, <<>>, <<>>, <<>>, <<>>, <<>>, <<>>, <<>>, 0)

(* fit_fields = [fit_access, fit_build_goal, fit_opportunity, fit_authority, *)
(*               fit_lane, fit_no_conditions, fit_visibility, fit_why_you]   *)
fit_fields_of(form) ==
    <<form.fit_access, form.fit_build_goal, form.fit_opportunity,
      form.fit_authority, form.fit_lane, form.fit_no_conditions,
      form.fit_visibility, form.fit_why_you>>

score_of(form) ==
    _score_contributor_track(form.contribution_track, form.comp_plan, form.assets,
                             form.website, form.company, fit_fields_of(form),
                             form.fit_authority)
rail_of(form, score) ==
    _assign_rail(form.contribution_track, form.position_interest, form.fit_lane, score)

(* Mutant: the track is stored as the scoring reads it *)
ContributorRow_normalised(form, score, rail) ==
    [form EXCEPT !.contribution_track = lower(strip(form.contribution_track))]
    @@ [score |-> score, rail |-> rail, status |-> "new", created_at |-> now_iso]

(* INSERT INTO contributors (name, ..., fit_why_you, score, rail, status,   *)
(* created_at) VALUES (name, ..., fit_why_you, score, rail, "new", now_iso) *)
ContributorRow(form, score, rail) ==
    form @@ [score |-> score, rail |-> rail, status |-> "new", created_at |-> now_iso]

(* The context of the admin page: the rows and the filters it was asked *)
Listing(rows, rail, min_score, track) ==
    [shown |-> TRUE, rows |-> rows, rail |-> rail, min_score |-> min_score,
     track |-> track]
NoListing ==
    [shown |-> FALSE, rows |-> <<>>, rail |-> "", min_score |-> {},
     track |-> NoneText]
NoCall == [fn |-> "none", form |-> BlankForm, score |-> 0, rail |-> ""]

----------------------------------------------------------------------------
(* Initial state: init_db() has created the empty tables *)

InitServed == intake = <<>> /\ reply = NoReply
InitCrm ==
    contributors = <<>> /\ listing = NoListing /\ calc = NoCall /\ posted = <<>>

Init ==
    /\ now = 0
    /\ subscribers = <<>>
    /\ magic_links = <<>>
    /\ pending = EmptyBag
    /\ todo = EmptyBag
    /\ resp = NoResp
    /\ InitServed
    /\ InitCrm

(* The clock advances; datetime.utcnow() never goes back *)
Tick ==
    /\ resp = NoResp
    /\ now + ClockStep <= MaxTime
    /\ now' = now + ClockStep
    /\ UNCHANGED <<subscribers, magic_links, pending, todo, resp, served, crm>>

(* Mutant: the token is inserted first, the grant is not yet written *)
IssueThenGrant(email, customer_id, subscription_id) ==
    /\ resp = NoResp
    /\ HasRoom
    /\ magic_links' = issue_magic_link(email, TokenHours)
    /\ pending' = pending (+) SetToBag({email})
    /\ UNCHANGED <<now, subscribers, resp>>

(* The first committed write of a handler that grants and then issues *)
GrantThenIssue(email, customer_id, subscription_id) ==
    /\ resp = NoResp
    /\ HasRoom
    /\ subscribers' = upsert_subscriber_active(email, customer_id, subscription_id)
    /\ pending' = pending (+) SetToBag({email})
    /\ UNCHANGED <<now, magic_links, resp>>

(* The second committed write: token = issue_magic_link(email, hours=24) *)
issue_step ==
    \E email \in BagToSet(pending) :
        /\ resp = NoResp
        /\ magic_links' = issue_magic_link(email, TokenHours)
        /\ pending' = pending (-) SetToBag({email})
        /\ UNCHANGED <<now, subscribers, todo, resp, served, crm>>

NoWrite ==
    /\ resp = NoResp
    /\ UNCHANGED <<now, subscribers, magic_links, pending, resp>>

(* GET /success: retrieved is FALSE when Session.retrieve raises *)
success_body(s, retrieved) ==
    IF retrieved /\ s.status \in {"complete", "completed"} /\ s.email # None
    THEN GrantThenIssue(s.email, str_expanded(s.customer), str_expanded(s.subscription))
    ELSE NoWrite

success ==
    \E inp \in SuccessInputs :
        success_body(inp.session, inp.retrieved) /\ UNCHANGED <<todo, served, crm>>

(* POST /stripe/webhook: signed is FALSE when construct_event raises (400) *)
stripe_webhook_body(event, signed) ==
    IF signed /\ event.type = "checkout.session.completed" /\ event.object.email # None
    THEN GrantThenIssue(event.object.email, event.object.customer,
                        event.object.subscription)
    ELSE IF signed /\ event.type = "customer.subscription.deleted"
    THEN /\ resp = NoResp
         /\ subscribers' = cancel_subscription(event.id)
         /\ UNCHANGED <<now, magic_links, pending, resp>>
    ELSE NoWrite

stripe_webhook ==
    \E inp \in WebhookInputs :
        stripe_webhook_body(inp.event, inp.signed) /\ UNCHANGED <<todo, served, crm>>

(* GET /dev/generate-token *)
dev_generate_token ==
    \E raw \in DevEmailInputs, key \in DevKeyInputs :
        LET email == clean_lower(raw)
        IN IF DEV_TOKEN_ENABLED /\ DEV_TOKEN_KEY # "" /\ key = DEV_TOKEN_KEY
              /\ email # "" /\ has_at(email)
           THEN GrantThenIssue(email, "", "") /\ UNCHANGED <<todo, served, crm>>
           ELSE NoWrite /\ UNCHANGED <<todo, served, crm>>

(* Mutant: a token is good for one visit, its row is deleted by the gate *)
dashboard_single_use ==
    \E token \in TokenInputs :
        LET r == require_subscriber_token(token)
        IN /\ resp = NoResp
           /\ resp' = [op |-> "dashboard", token |-> token,
                       email |-> r.email, err |-> r.err]
           /\ magic_links' = SelectSeq(magic_links,
                                       LAMBDA row : row.token_hash # sha256(token))
           /\ UNCHANGED <<now, subscribers, pending, todo, served, crm>>

(* GET /dashboard?token=: the handler reads and writes nothing; resp holds *)
(* its response until it is returned, and the read is one step            *)
dashboard ==
    \E token \in TokenInputs :
        LET r == require_subscriber_token(token)
        IN /\ resp = NoResp
           /\ resp' = [op |-> "dashboard", token |-> token,
                       email |-> r.email, err |-> r.err]
           /\ UNCHANGED <<now, subscribers, magic_links, pending, todo, served, crm>>

return_response ==
    /\ resp # NoResp
    /\ resp' = NoResp
    /\ UNCHANGED <<now, subscribers, magic_links, pending, todo, served, crm>>

Next ==
    \/ Tick
    \/ success
    \/ issue_step
    \/ stripe_webhook
    \/ dev_generate_token
    \/ dashboard
    \/ return_response

Spec == Init /\ [][Next]_vars

----------------------------------------------------------------------------
(* issue_magic_link called with any ttl (the handlers all pass 24) *)

HoursInputs == {1, ClockStep, TokenHours}

call_issue_magic_link ==
    \E email \in Emails, hours \in HoursInputs :
        /\ resp = NoResp
        /\ HasRoom
        /\ magic_links' = issue_magic_link(email, hours)
        /\ UNCHANGED <<now, subscribers, pending, todo, resp, served, crm>>

NextCalls == Next \/ call_issue_magic_link

SpecCalls == Init /\ [][NextCalls]_vars

----------------------------------------------------------------------------
(* One completed checkout handled twice: by /success and by the webhook, or *)
(* by two deliveries of the same event to either.  The two requests are in  *)
(* todo; each makes its two writes, in any interleaving with the other's.   *)

PaidSessions == {s \in CheckoutSessions : s.status = "complete" /\ s.email # None}
Request(kind, session) == [kind |-> kind, session |-> session]

(* The table before the checkout: empty, or one grant from an earlier       *)
(* checkout, active or canceled since                                       *)
PriorTables ==
    {<<>>} \cup
    {<<SubscriberRow(e, CustomerOf(e), SubscriptionOf(e), st, isoformat(0))>> :
        e \in Emails, st \in {"active", "canceled"}} \cup
    {<<SubscriberRow(e, str_expanded(CustomerOf(e)), str_expanded(SubscriptionOf(e)),
                     "active", isoformat(0))>> : e \in Emails} \cup
    {<<SubscriberRow(e, "", "", st, isoformat(0))>> :
        e \in Emails, st \in {"active", "canceled"}}

InitRace ==
    /\ now = 0
    /\ subscribers \in PriorTables
    /\ magic_links = <<>>
    /\ pending = EmptyBag
    /\ \E s \in PaidSessions, k1, k2 \in {"success", "webhook"} :
          todo = SetToBag({Request(k1, s)}) (+) SetToBag({Request(k2, s)})
    /\ resp = NoResp
    /\ InitServed
    /\ InitCrm

(* The requests are served within the lifetime of a token *)
race_tick ==
    /\ now + ClockStep < TokenHours
    /\ Tick

race_success ==
    \E r \in BagToSet(todo) :
        /\ r.kind = "success"
        /\ success_body(r.session, TRUE)
        /\ todo' = todo (-) SetToBag({r})
        /\ UNCHANGED <<served, crm>>

race_webhook ==
    \E r \in BagToSet(todo) :
        /\ r.kind = "webhook"
        /\ stripe_webhook_body(Event("checkout.session.completed", r.session, ""), TRUE)
        /\ todo' = todo (-) SetToBag({r})
        /\ UNCHANGED <<served, crm>>

NextRace ==
    \/ race_tick
    \/ race_success
    \/ race_webhook
    \/ issue_step

SpecRace == InitRace /\ [][NextRace]_vars

----------------------------------------------------------------------------
(* Requests served one at a time, each to its reply: GET /checkout,        *)
(* GET /success, POST /stripe/webhook and POST /intake.  A request makes    *)
(* its committed writes, then sends its email, then returns its response.   *)

(* The email the /success page ends with: details.get("email") of a        *)
(* complete session, else None                                              *)
success_email(s, retrieved) ==
    IF retrieved /\ s.status \in {"complete", "completed"} THEN s.email ELSE None

(* customer_email of a checkout.session.completed event, else None *)
webhook_email(event, signed) ==
    IF signed /\ event.type = "checkout.session.completed"
    THEN event.object.email ELSE None

(* GET /checkout: created is FALSE when Session.create raises *)
serve_checkout ==
    \E created \in BOOLEAN :
        /\ reply = NoReply
        /\ resp = NoResp
        /\ reply' = IF created
                    THEN Serving("checkout", "ok", None,
                                 RedirectResponse("session.url", 303))
                    ELSE Serving("checkout", "failed", None,
                                 JSONResponse("{error: str(e)}", 500))
        /\ UNCHANGED <<now, subscribers, magic_links, pending, todo, resp, intake, crm>>

serve_success ==
    \E inp \in SuccessInputs :
        /\ reply = NoReply
        /\ success_body(inp.session, inp.retrieved)
        /\ reply' = Serving("success", IF inp.retrieved THEN "ok" ELSE "failed",
                            success_email(inp.session, inp.retrieved),
                            TemplateResponse("success.html"))
        /\ UNCHANGED <<todo, intake, crm>>

serve_webhook ==
    \E inp \in WebhookInputs :
        /\ reply = NoReply
        /\ stripe_webhook_body(inp.event, inp.signed)
        /\ reply' = Serving("webhook", IF inp.signed THEN "ok" ELSE "failed",
                            webhook_email(inp.event, inp.signed),
                            IF inp.signed
                            THEN JSONResponse("{received: true}", 200)
                            ELSE HTTPException(400, "Webhook signature error"))
        /\ UNCHANGED <<todo, intake, crm>>

(* POST /intake?token= *)
submit_intake ==
    \E token \in TokenInputs, form \in IntakeForms :
        LET r == require_subscriber_token(token)
        IN /\ reply = NoReply
           /\ resp = NoResp
           /\ IF r.err # NoError
              THEN /\ reply' = [Serving("intake", "none", None, r.err)
                                   EXCEPT !.token = token]
                   /\ UNCHANGED intake
              ELSE /\ Len(intake) < MaxIntake
                   /\ intake' = Append(intake, IntakeRow(form))
                   /\ reply' = [Serving("intake", "none", EMAIL_USER,
                                        JSONResponse("Intake stored successfully", 200))
                                   EXCEPT !.token = token]
           /\ UNCHANGED <<now, subscribers, magic_links, pending, todo, resp, crm>>

(* The rest of the handler after its writes: if EMAIL_USER and EMAIL_PASS:  *)
(* send_email(...), then the return.  An exception that leaves send_email   *)
(* is caught by the try of /success and leaves the other handlers.          *)
after_writes(r, m) ==
    [r EXCEPT
        !.done = TRUE,
        !.smtp = m.smtp,
        !.token = IF r.op = "success" /\ r.mails
                  THEN <<"tok", Len(magic_links)>> ELSE r.token,
        !.response = IF m.raised /\ r.op # "success"
                     THEN InternalServerError ELSE r.response]

respond ==
    \E smtp_ok \in BOOLEAN :
        /\ reply # NoReply
        /\ ~reply.done
        /\ pending = EmptyBag
        /\ reply' = after_writes(reply,
                        IF reply.mails /\ EMAIL_USER # "" /\ EMAIL_PASS # ""
                        THEN send_email(smtp_ok) ELSE NotCalled)
        /\ UNCHANGED <<now, subscribers, magic_links, pending, todo, resp, intake, crm>>

return_reply ==
    /\ reply.done
    /\ reply' = NoReply
    /\ UNCHANGED <<now, subscribers, magic_links, pending, todo, resp, intake, crm>>

reply_tick ==
    /\ reply = NoReply
    /\ pending = EmptyBag
    /\ Tick

NextReplies ==
    \/ serve_checkout
    \/ serve_success
    \/ serve_webhook
    \/ submit_intake
    \/ issue_step
    \/ respond
    \/ return_reply
    \/ reply_tick

SpecReplies == Init /\ [][NextReplies]_vars

----------------------------------------------------------------------------
(* The contributor intake and its admin pages *)

(* Configuration: the deployment with an admin key *)
ADMIN_KEY == "adminkey"
AdminKeyInputs == {"adminkey", " adminkey", "wrong", ""}
(* _clean(key or "") on AdminKeyInputs *)
clean(s) == CASE s = " adminkey" -> "adminkey" [] OTHER -> s
(* TRUE when require_admin_key returns, FALSE when it raises the 403 *)
require_admin_key(key) == ADMIN_KEY = "" \/ clean(key) = ADMIN_KEY

Base == <<now, subscribers, magic_links, pending, todo, resp, served>>

(* POST /contributor *)
submit_contributor(form) ==
    LET score == score_of(form)
        rail == rail_of(form, score)
    IN /\ listing = NoListing
       /\ calc = NoCall
       /\ Len(contributors) < MaxContributors
       /\ contributors' = Append(contributors, ContributorRow(form, score, rail))
       /\ posted' = Append(posted, [form |-> form, score |-> score, rail |-> rail])
       /\ UNCHANGED <<Base, listing, calc>>

(* Mutant: the UPDATE without its WHERE clause *)
set_every_status(id, status) ==
    [i \in 1..Len(contributors) |-> [contributors[i] EXCEPT !.status = status]]

(* UPDATE contributors SET status = ? WHERE id = ? *)
set_status(id, status) ==
    [i \in 1..Len(contributors) |->
        IF i = id THEN [contributors[i] EXCEPT !.status = status]
        ELSE contributors[i]]

StatusInputs == {"new", "contacted", ""}

(* POST /admin/contributor-status *)
update_contributor_status ==
    \E id \in 1..(MaxContributors + 1), status \in StatusInputs, key \in AdminKeyInputs :
        /\ listing = NoListing
        /\ contributors' = IF require_admin_key(key)
                           THEN set_status(id, status) ELSE contributors
        /\ UNCHANGED <<Base, listing, calc, posted>>

(* The filters of the admin page: rail and track are Optional[str],       *)
(* min_score is Optional[int], here the empty set or the set of its value  *)
RailFilters == {"", "triage", "sales_priority"}
MinScoreFilters == {{}, {45}, {70}}
TrackFilters == {NoneText, <<>>, t_sales_growth}

(* WHERE 1=1 [AND rail = ?] [AND score >= ?] [AND contribution_track = ?] *)
matches(row, rail, min_score, track) ==
    /\ rail # "" => row.rail = rail
    /\ \A m \in min_score : row.score >= m
    /\ truthy(track) => row.contribution_track = track

(* dict(r) of a row of SELECT *: the columns, id among them *)
dict_row(i) == [id |-> i] @@ contributors[i]

(* SELECT * ... ORDER BY score DESC: the results the query can return, rows *)
(* of one score being in any order                                          *)
select_contributors(rail, min_score, track) ==
    LET ids == {i \in 1..Len(contributors) :
                   matches(contributors[i], rail, min_score, track)}
        orders == {p \in [1..Cardinality(ids) -> ids] :
                     /\ \A a, b \in 1..Cardinality(ids) : a # b => p[a] # p[b]
                     /\ \A a, b \in 1..Cardinality(ids) :
                           a < b => contributors[p[a]].score >= contributors[p[b]].score}
    IN {[k \in 1..Cardinality(ids) |-> dict_row(p[k])] : p \in orders}

(* GET /admin/contributors-dashboard *)
contributors_dashboard ==
    \E rail \in RailFilters, min_score \in MinScoreFilters, track \in TrackFilters,
       key \in AdminKeyInputs :
        /\ listing = NoListing
        /\ IF require_admin_key(key)
           THEN \E rows \in select_contributors(rail, min_score, track) :
                   listing' = Listing(rows, rail, min_score, track)
           ELSE UNCHANGED listing
        /\ UNCHANGED <<Base, contributors, calc, posted>>

return_listing ==
    /\ listing # NoListing
    /\ listing' = NoListing
    /\ UNCHANGED <<Base, contributors, calc, posted>>

(* The visitors of the bounded table *)
VisitorForms ==
    {ContributorForm(t_ecosystem_staff, <<>>, t_residual, chars(11), chars(7),
                     chars(3), t_owner_exec, t_sales, 6),
     ContributorForm(t_Sales_Growth_padded, t_Closer, t_Hourly_plus_Residual,
                     chars(11), chars(7), chars(3), t_Owner_Exec_padded, <<>>, 5),
     ContributorForm(t_partner_vendor, t_client_ops, t_equity, chars(11),
                     chars(6), chars(3), t_partial, t_hardware, 3),
     ContributorForm(t_sales_growth, <<>>, t_commission, <<" ">> \o chars(10),
                     chars(7), chars(2), t_manager_influence, t_finance, 2),
     ContributorForm(t_mentor, <<>>, <<>>, <<>>, chars(6), chars(2), <<>>, <<>>, 0)}

contributor ==
    \E form \in VisitorForms : submit_contributor(form)

NextContrib ==
    \/ contributor
    \/ update_contributor_status
    \/ contributors_dashboard
    \/ return_listing

SpecContrib == Init /\ [][NextContrib]_vars

----------------------------------------------------------------------------
(* The scoring and the rail assignment on every form: one submission to    *)
(* the empty table, and the two functions called directly, also with None   *)
(* for an argument and with any score                                       *)

(* Every track with every comp plan, assets, authority and number of fit  *)
(* answers                                                                  *)
score_submission ==
    /\ contributors = <<>>
    /\ calc = NoCall
    /\ \E track \in TrackInputs, comp \in CompInputs, assets \in AssetsInputs,
          site \in {<<chars(6), chars(2)>>, <<chars(7), chars(3)>>},
          authority \in AuthorityInputs, k \in FitCounts :
          submit_contributor(
              ContributorForm(track, <<>>, comp, assets, site[1], site[2],
                              authority, <<>>, k))

(* Every track with every position, lane, website and company *)
rail_submission ==
    /\ contributors = <<>>
    /\ calc = NoCall
    /\ \E track \in TrackInputs, pos \in PositionInputs, lane \in LaneInputs,
          website \in WebsiteInputs, company \in CompanyInputs,
          authority \in {<<>>, t_owner_exec}, k \in {0, 5, 6} :
          submit_contributor(
              ContributorForm(track, pos, t_residual, chars(11), website, company,
                              authority, lane, k))

OptionalForms ==
    {ContributorForm(track, <<>>, text, text, text, text, text, text, k) :
        track \in {NoneText, <<>>, t_mentor, t_ecosystem_staff},
        text \in {NoneText, <<>>, t_blank},
        k \in {0, 6}}

call_score_contributor_track ==
    /\ contributors = <<>>
    /\ calc = NoCall
    /\ \E form \in OptionalForms :
          /\ calc' = [fn |-> "_score_contributor_track", form |-> form,
                      score |-> score_of(form), rail |-> ""]
          /\ UNCHANGED <<Base, contributors, listing, posted>>

ScoreInputs == 0..MaxScore

call_assign_rail ==
    /\ contributors = <<>>
    /\ calc = NoCall
    /\ \E track \in TrackInputs \cup {NoneText},
          pos \in PositionInputs \cup {NoneText, t_presales},
          lane \in LaneInputs \cup {NoneText},
          score \in ScoreInputs :
          LET form == [BlankForm EXCEPT !.contribution_track = track,
                                        !.position_interest = pos,
                                        !.fit_lane = lane]
          IN /\ calc' = [fn |-> "_assign_rail", form |-> form, score |-> score,
                         rail |-> rail_of(form, score)]
             /\ UNCHANGED <<Base, contributors, listing, posted>>

NextScore ==
    \/ score_submission
    \/ rail_submission
    \/ call_score_contributor_track
    \/ call_assign_rail

SpecScore == Init /\ [][NextScore]_vars

----------------------------------------------------------------------------
(* Properties of the magic links *)

LinkIds == 1..Len(magic_links)
ExpiresAt(i) == fromisoformat(magic_links[i].expires_at)
(* The tokens whose digest row i stores: the token issue_magic_link returned *)
TokensOf(i) == {t \in Tokens : sha256(t) = magic_links[i].token_hash}

(* C1: the token issue_magic_link(email, ttl) returned validates to exactly *)
(* that email at every time not later than the stored expiry, whatever was  *)
(* issued, confirmed or canceled since.                                     *)
C1_IssuedTokenValidates ==
    \A i \in LinkIds : \A t \in TokensOf(i) :
        now <= ExpiresAt(i) => validate_magic_link(t) = magic_links[i].email

(* A token still validates at the instant of its expiry, hours after it was *)
(* issued, after a token was issued for another email and a grant canceled  *)
C1_Witness ==
    \E i \in LinkIds : \E t \in TokensOf(i) :
        /\ now = ExpiresAt(i) /\ now > fromisoformat(magic_links[i].created_at)
        /\ i < Len(magic_links) /\ magic_links[i + 1].email # magic_links[i].email
        /\ \E j \in 1..Len(subscribers) : subscribers[j].status = "canceled"
        /\ validate_magic_link(t) = magic_links[i].email

(* C2: once the clock is strictly after a token's expires_at, the token     *)
(* validates to nothing, now and after every later step; its row stays in   *)
(* the table unchanged.                                                     *)
ExpiredAndDead(i) ==
    /\ i \in LinkIds
    /\ now > ExpiresAt(i)
    /\ \A t \in TokensOf(i) : validate_magic_link(t) = None

C2_ExpiredStaysDead ==
    [][\A i \in LinkIds :
          now > ExpiresAt(i) =>
              /\ ExpiredAndDead(i)
              /\ ExpiredAndDead(i)'
              /\ magic_links'[i] = magic_links[i]]_vars

(* An expired token of an email is dead while a later token of the same     *)
(* email is alive                                                           *)
C2_Witness ==
    \E i, j \in LinkIds :
        /\ i < j /\ magic_links[i].email = magic_links[j].email
        /\ ExpiredAndDead(i)
        /\ \A t \in TokensOf(j) : validate_magic_link(t) = magic_links[j].email

(* C3 as stated: whenever validate_magic_link returns an email, a record    *)
(* with the digest exists and the clock is strictly before its expiry.      *)
C3_ValidOnlyBeforeExpiry ==
    \A t \in Tokens :
        validate_magic_link(t) # None =>
            \E i \in LinkIds :
                /\ t \in TokensOf(i)
                /\ magic_links[i].email = validate_magic_link(t)
                /\ now < ExpiresAt(i)

(* C3 amended: whenever validate_magic_link returns an email, a record with *)
(* the digest exists, holds that email, and the clock is not after its      *)
(* expiry (at the instant now = expires_at the email is still returned).    *)
C3_ValidOnlyUntilExpiry ==
    \A t \in Tokens :
        validate_magic_link(t) # None =>
            \E i \in LinkIds :
                /\ t \in TokensOf(i)
                /\ magic_links[i].email = validate_magic_link(t)
                /\ now <= ExpiresAt(i)

(* The gate lets a token in at the very instant of its expiry *)
C3_Witness ==
    /\ resp.op = "dashboard" /\ resp.email # None
    /\ \E i \in LinkIds :
          /\ resp.token \in TokensOf(i)
          /\ now = ExpiresAt(i)
          /\ validate_magic_link(resp.token) = resp.email

----------------------------------------------------------------------------
(* Properties of the gate *)

NoRecord(t) == \A i \in LinkIds : t \notin TokensOf(i)
ExpiredRecord(t) == \E i \in LinkIds : t \in TokensOf(i) /\ now > ExpiresAt(i)
LiveRecord(t, e) ==
    \E i \in LinkIds :
        t \in TokensOf(i) /\ now <= ExpiresAt(i) /\ magic_links[i].email = e
GrantRows(e) == {j \in 1..Len(subscribers) : subscribers[j].email = e}
HasActiveGrant(e) == \E j \in GrantRows(e) : subscribers[j].status = "active"

Missing401 == HTMLResponse("Missing token.", 401)
Invalid401 == HTMLResponse("Invalid or expired link.", 401)
Inactive403 == HTMLResponse("Subscription not active.", 403)

(* C4: the gate fails in exactly three ways, tested in this order: no token *)
(* gives the 401 'missing' response; a token with no record, or with an     *)
(* expired record, gives the one 401 'invalid or expired' response; a live  *)
(* token whose email has no active grant gives the 403 response.  A failure *)
(* returns no email.                                                        *)
C4_GateFailures ==
    resp.op = "dashboard" =>
        LET t == resp.token
        IN /\ t = EmptyToken => resp.err = Missing401
           /\ (t # EmptyToken /\ (NoRecord(t) \/ ExpiredRecord(t)))
                 => resp.err = Invalid401
           /\ (t # EmptyToken /\ \E e \in Emails : LiveRecord(t, e) /\ ~HasActiveGrant(e))
                 => resp.err = Inactive403
           /\ resp.err # NoError =>
                 /\ resp.email = None
                 /\ resp.err \in {Missing401, Invalid401, Inactive403}
           /\ Cardinality({Missing401, Invalid401, Inactive403}) = 3

(* An expired token of an email without an active grant is answered with    *)
(* the 401 of the token test, not the 403 of the grant test                 *)
C4_Witness ==
    /\ resp.op = "dashboard" /\ resp.err = Invalid401
    /\ \E i \in LinkIds :
          /\ resp.token \in TokensOf(i)
          /\ now > ExpiresAt(i)
          /\ ~HasActiveGrant(magic_links[i].email)

(* C5: the gate grants access exactly when validate_magic_link returns an   *)
(* email and is_active_subscriber holds of it, and then returns that email; *)
(* is_active_subscriber is false of an email with no grant row and of an    *)
(* email whose grant is canceled.                                           *)
C5_GateIsValidateAndActive ==
    /\ resp.op = "dashboard" =>
          LET e == validate_magic_link(resp.token)
          IN /\ (resp.err = NoError /\ resp.email # None)
                   <=> (e # None /\ is_active_subscriber(e))
             /\ resp.err = NoError => resp.email = e
    /\ \A e \in Emails :
          (GrantRows(e) = {} \/ \E j \in GrantRows(e) : subscribers[j].status = "canceled")
              => ~is_active_subscriber(e)

(* The holder of a live token is refused because the grant is canceled *)
C5_Witness ==
    /\ resp.op = "dashboard" /\ resp.err = Inactive403
    /\ \E e \in Emails :
          /\ validate_magic_link(resp.token) = e
          /\ \E j \in GrantRows(e) : subscribers[j].status = "canceled"

----------------------------------------------------------------------------
(* Properties of the grants *)

UniqueEmails == \A e \in Emails : Cardinality(GrantRows(e)) <= 1

(* C6: the second application of one checkout-completed event leaves the    *)
(* table as the first left it, but for updated_at of the email's row: one   *)
(* row for the email, active, created_at and the stripe ids unchanged.      *)
StoredIds(r) ==
    IF r.kind = "success"
    THEN <<str_expanded(r.session.customer), str_expanded(r.session.subscription)>>
    ELSE <<r.session.customer, r.session.subscription>>

(* The second of the two requests is applied, to a table that holds what   *)
(* the same event left there                                               *)
SecondApplication(r) ==
    /\ todo = SetToBag({r})
    /\ todo' = EmptyBag
    /\ \E j \in 1..Len(subscribers) :
          /\ subscribers[j].email = r.session.email
          /\ subscribers[j].status = "active"
          /\ <<subscribers[j].stripe_customer_id,
               subscribers[j].stripe_subscription_id>> = StoredIds(r)

C6_ReplayIsIdempotent ==
    [][\A r \in BagToSet(todo) :
         SecondApplication(r) =>
            LET e == r.session.email
            IN /\ Len(subscribers') = Len(subscribers)
               /\ Cardinality({j \in 1..Len(subscribers') : subscribers'[j].email = e}) = 1
               /\ \A j \in 1..Len(subscribers) :
                     IF subscribers[j].email = e
                     THEN /\ subscribers'[j].status = "active"
                          /\ subscribers'[j] =
                               [subscribers[j] EXCEPT !.updated_at = subscribers'[j].updated_at]
                     ELSE subscribers'[j] = subscribers[j]]_vars

(* Both deliveries were applied, the second later than the first *)
C6_Witness ==
    /\ todo = EmptyBag /\ pending = EmptyBag /\ Len(magic_links) = 2
    /\ \E j \in 1..Len(subscribers) :
          /\ subscribers[j].email = magic_links[1].email
          /\ fromisoformat(subscribers[j].updated_at) > fromisoformat(magic_links[1].created_at)

(* C7: at most one grant row per email, and a row once created is never     *)
(* removed: every step keeps each row at its id with its email and its      *)
(* created_at.                                                              *)
C7_OneGrantPerEmailNeverRemoved ==
    [][/\ UniqueEmails
       /\ UniqueEmails'
       /\ Len(subscribers') >= Len(subscribers)
       /\ \A j \in 1..Len(subscribers) :
             /\ subscribers'[j].email = subscribers[j].email
             /\ subscribers'[j].created_at = subscribers[j].created_at]_vars

(* Two grants: the first was canceled and is still there, the second was   *)
(* confirmed later                                                         *)
C7_Witness ==
    /\ Len(subscribers) = 2
    /\ subscribers[1].status = "canceled"
    /\ subscribers[2].status = "active"
    /\ fromisoformat(subscribers[2].created_at) > fromisoformat(subscribers[1].updated_at)

(* C8: a cancellation carrying subscription id S sets status = 'canceled'   *)
(* (and updated_at) on exactly the rows whose stripe_subscription_id is S   *)
(* and changes no other row; on a row already canceled only updated_at      *)
(* changes.                                                                 *)
CancelApplied(S) ==
    /\ subscribers' = cancel_subscription(S)
    /\ UNCHANGED <<now, magic_links, pending, todo, resp>>

C8_CancelBySubscriptionId ==
    [][\A S \in DeletedSubscriptionIds :
          CancelApplied(S) =>
              /\ Len(subscribers') = Len(subscribers)
              /\ \A j \in 1..Len(subscribers) :
                    IF subscribers[j].stripe_subscription_id = S
                    THEN subscribers'[j] =
                            [subscribers[j] EXCEPT
                                !.status = "canceled",
                                !.updated_at = subscribers'[j].updated_at]
                    ELSE subscribers'[j] = subscribers[j]]_vars

(* A grant canceled hours after it was made, beside an active grant of      *)
(* another subscription                                                     *)
C8_Witness ==
    \E j, k \in 1..Len(subscribers) :
        /\ subscribers[j].status = "canceled"
        /\ fromisoformat(subscribers[j].updated_at) > fromisoformat(subscribers[j].created_at)
        /\ subscribers[k].status = "active"
        /\ subscribers[k].stripe_subscription_id # subscribers[j].stripe_subscription_id
        /\ subscribers[k].updated_at = subscribers[k].created_at

(* C9: when the two requests for one completed checkout have made all their *)
(* writes, in whatever interleaving, the table holds exactly one row for    *)
(* the email, active, and each token issued validates to the email.         *)
RaceDone == todo = EmptyBag /\ pending = EmptyBag /\ Len(magic_links) = 2

C9_RaceLeavesOneActiveGrant ==
    RaceDone =>
        \A i \in LinkIds :
            LET e == magic_links[i].email
            IN /\ Cardinality(GrantRows(e)) = 1
               /\ \A j \in GrantRows(e) : subscribers[j].status = "active"
               /\ \A t \in TokensOf(i) : validate_magic_link(t) = e
               /\ TokensOf(i) # {}
               /\ e = magic_links[1].email

(* Both requests are done, on a table that held a canceled grant of the     *)
(* email before                                                             *)
C9_Witness ==
    /\ RaceDone
    /\ \E j \in GrantRows(magic_links[1].email) :
          fromisoformat(subscribers[j].created_at) < fromisoformat(subscribers[j].updated_at)
    /\ fromisoformat(magic_links[1].created_at) < fromisoformat(magic_links[2].created_at)

(* C10: a step that changes magic_links keeps every earlier row as it was,  *)
(* and every earlier token validates after the step to what it validated    *)
(* before.                                                                  *)
C10_IssueKeepsEarlierTokens ==
    [][magic_links' # magic_links =>
         \A i \in LinkIds :
            /\ Len(magic_links') > Len(magic_links)
            /\ magic_links'[i] = magic_links[i]
            /\ \A t \in TokensOf(i) :
                  validate_magic_link(t)' = validate_magic_link(t)]_vars

(* Two tokens of one email are valid at the same time *)
C10_Witness ==
    \E i, j \in LinkIds :
        /\ i < j /\ magic_links[i].email = magic_links[j].email
        /\ \A t \in TokensOf(i) \cup TokensOf(j) :
              validate_magic_link(t) = magic_links[i].email

----------------------------------------------------------------------------
(* Properties of the replies *)

Tables == <<subscribers, magic_links, intake>>
(* The step in which a request sends its email and returns *)
MailStep == reply.mails /\ ~reply.done /\ reply'.done

(* C11: a failure of the notification email changes nothing of the request *)
(* that sends it.  In the step in which POST /intake, /success or the      *)
(* checkout-completed webhook sends its email and returns, the response is *)
(* the one the handler had prepared, a 200, the same for an email that is  *)
(* sent and for one that fails; the step writes no table, and the rows the *)
(* request committed before are there: the intake row, or the active grant *)
(* and a live token of the email.                                          *)
C11_MailFailureKeepsOutcome ==
    [][MailStep =>
         /\ reply.op \in {"intake", "success", "webhook"}
         /\ reply'.response = reply.response
         /\ reply'.response.status_code = 200
         /\ after_writes(reply, send_email(TRUE)).response
              = after_writes(reply, send_email(FALSE)).response
         /\ after_writes(reply, send_email(TRUE)).token
              = after_writes(reply, send_email(FALSE)).token
         /\ UNCHANGED Tables
         /\ reply.op = "intake" =>
               /\ intake # <<>>
               /\ intake[Len(intake)].created_at = now_iso
         /\ reply.op \in {"success", "webhook"} =>
               /\ is_active_subscriber(reply.email)
               /\ validate_magic_link(<<"tok", Len(magic_links)>>) = reply.email]_vars

(* The webhook answered 200 although its email failed, and so did /intake   *)
C11_Witness ==
    /\ reply.done /\ reply.smtp = "failed"
    /\ reply.op \in {"webhook", "intake"}
    /\ reply.response.status_code = 200
    /\ magic_links # <<>>

(* C12 as stated: a request whose call of stripe failed (Session.create in *)
(* /checkout, Session.retrieve in /success, the signature check of the     *)
(* webhook) ends in a server-error response (5xx), never in a normal one,  *)
(* and has created no grant and no token.                                  *)
C12_UpstreamErrorsAreServerErrors ==
    (reply.done /\ reply.upstream = "failed") =>
        /\ reply.response.status_code >= 500
        /\ ~reply.mails
        /\ reply.token = EmptyToken

----------------------------------------------------------------------------
(* Properties of the contributor scoring *)

(* The forms scored with their scores: those posted to /contributor and the *)
(* one handed to _score_contributor_track directly                          *)
Scored ==
    {[form |-> posted[i].form, score |-> posted[i].score] : i \in 1..Len(posted)}
    \cup (IF calc.fn = "_score_contributor_track"
          THEN {[form |-> calc.form, score |-> calc.score]} ELSE {})

(* The bonus of a free-text field longer than min once trimmed *)
LengthBonus(text, min, bonus) ==
    IF truthy(text) /\ Len(strip(text)) > min THEN bonus ELSE 0

SumOfBonuses(f) ==
    track_weights(lower(strip(or_empty(f.contribution_track))))
    + comp_bonus(lower(strip(or_empty(f.comp_plan))))
    + LengthBonus(f.assets, 10, 10)
    + LengthBonus(f.website, 6, 6)
    + LengthBonus(f.company, 2, 4)
    + fit_bonus(filled_count(fit_fields_of(f)))
    + authority_bonus(strip(lower(or_empty(f.fit_authority))))

(* The score is the score of the form, whenever computed, and is the sum *)
ScoreIsSum ==
    \A e \in Scored :
        /\ e.score = score_of(e.form)
        /\ e.score = SumOfBonuses(e.form)
        /\ \A i \in 1..Len(posted) :
              posted[i].form = e.form => posted[i].score = e.score

----------------------------------------------------------------------------
(* Properties of the rail assignment *)

(* The forms with the score and the rail they were given: those posted to  *)
(* /contributor and the one handed to _assign_rail directly                *)
Railed ==
    {posted[i] : i \in 1..Len(posted)}
    \cup (IF calc.fn = "_assign_rail"
          THEN {[form |-> calc.form, score |-> calc.score, rail |-> calc.rail]}
          ELSE {})

TrackOf(f) == lower(strip(or_empty(f.contribution_track)))
PositionOf(f) == lower(strip(or_empty(f.position_interest)))
LaneOf(f) == lower(strip(or_empty(f.fit_lane)))

SalesRule(f) == is_sales(TrackOf(f), PositionOf(f), LaneOf(f))
StaffRule(f) == is_staff(TrackOf(f), PositionOf(f))
HardwareRule(f) == is_hardware(TrackOf(f), LaneOf(f))
CapitalRule(f) == is_capital(TrackOf(f), LaneOf(f))

(* C14: with a score of 70 or more the rules are tried in the order sales, *)
(* staff, hardware, capital and the first that matches names the rail: a   *)
(* form of track 'sales_growth' (or lane 'sales', or with 'sales' or       *)
(* 'closer' in the position interest) gets 'sales_priority' whatever other *)
(* rule it satisfies, and 'priority' is given exactly when none of the     *)
(* four rules matches.                                                     *)
C14_FirstMatchWinsFrom70 ==
    \A e \in Railed :
        e.score >= 70 =>
            LET f == e.form
            IN /\ SalesRule(f) => e.rail = "sales_priority"
               /\ (~SalesRule(f) /\ StaffRule(f)) => e.rail = "staff_priority"
               /\ (~SalesRule(f) /\ ~StaffRule(f) /\ HardwareRule(f))
                     => e.rail = "hardware_supply"
               /\ (~SalesRule(f) /\ ~StaffRule(f) /\ ~HardwareRule(f) /\ CapitalRule(f))
                     => e.rail = "capital"
               /\ e.rail = "priority"
                     <=> ~(SalesRule(f) \/ StaffRule(f) \/ HardwareRule(f) \/ CapitalRule(f))

(* A submission scored 70 or more that satisfies the sales rule by its     *)
(* track and the staff rule by its position, and was put on sales_priority *)
C14_Witness ==
    \E i \in 1..Len(posted) :
        /\ posted[i].score >= 70
        /\ TrackOf(posted[i].form) = t_sales_growth
        /\ StaffRule(posted[i].form)
        /\ posted[i].rail = "sales_priority"
        /\ contributors[i].rail = "sales_priority"

ReviewRails == {"sales_pool", "staff_pool", "bd_followup", "review"}
PriorityRails ==
    {"sales_priority", "staff_priority", "hardware_supply", "capital", "priority"}

(* C15: the rail agrees with the band of the score, whatever the track, the *)
(* position interest and the lane: 'triage' exactly when score < 45; one of *)
(* the four review rails when 45 <= score < 70; one of the five priority    *)
(* rails when score >= 70.                                                  *)
C15_RailAgreesWithBand ==
    \A e \in Railed :
        /\ e.rail = "triage" <=> e.score < 45
        /\ (45 <= e.score /\ e.score < 70) => e.rail \in ReviewRails
        /\ e.score >= 70 => e.rail \in PriorityRails
        /\ "triage" \notin ReviewRails \cup PriorityRails
        /\ ReviewRails \cap PriorityRails = {}

(* At the lower edge of the review band: a score of 45 with the track of   *)
(* the priority band's hardware rule is on bd_followup                      *)
C15_Witness ==
    /\ calc.fn = "_assign_rail"
    /\ calc.score = 45
    /\ TrackOf(calc.form) = t_hardware_supply
    /\ calc.rail = "bd_followup"

(* The bonuses besides the track weight *)
OtherBonuses(f) == SumOfBonuses(f) - track_weights(TrackOf(f))

(* No comp keyword, no qualifying assets, website or company, no fit       *)
(* answer, no authority                                                    *)
BareForm(f) ==
    LET comp == lower(strip(or_empty(f.comp_plan)))
    IN /\ \A kw \in {t_residual, t_commission, t_hourly, t_equity, t_revshare} :
             ~contains(kw, comp)
       /\ Len(strip(or_empty(f.assets))) <= 10
       /\ Len(strip(or_empty(f.website))) <= 6
       /\ Len(strip(or_empty(f.company))) <= 2
       /\ \A i \in 1..8 : strip(or_empty(fit_fields_of(f)[i])) = <<>>

(* C16: a track outside the known set, the empty and the missing one       *)
(* included, is scored with the default weight 10, and nothing fails; a    *)
(* form with such a track, no comp keyword, no qualifying assets, website  *)
(* or company, no fit answer and no authority scores below 45 and is put   *)
(* on 'triage'.                                                            *)
C16_UnknownTrackDefaultsToTriage ==
    /\ \A e \in Scored :
          TrackOf(e.form) \notin KnownTracks =>
              /\ e.score = 10 + OtherBonuses(e.form)
              /\ BareForm(e.form) =>
                    /\ e.score = 10
                    /\ e.score < 45
                    /\ rail_of(e.form, e.score) = "triage"
    /\ \A i \in 1..Len(posted) :
          (TrackOf(posted[i].form) \notin KnownTracks /\ BareForm(posted[i].form))
              => posted[i].rail = "triage" /\ contributors[i].rail = "triage"

(* A form with the track 'mentor' and nothing else of weight was stored    *)
(* with score 10 on triage                                                 *)
C16_Witness ==
    /\ Len(posted) = 1
    /\ posted[1].form.contribution_track = t_mentor
    /\ BareForm(posted[1].form)
    /\ contributors[1].score = 10
    /\ contributors[1].rail = "triage"

(* C17: the score never exceeds the ceiling of 100: every score returned   *)
(* by _score_contributor_track, for every track, comp plan, field length,  *)
(* number of fit answers from 0 to 8 and authority, and every score stored *)
(* with a submission, is at most 100.                                      *)
C17_ScoreAtMost100 ==
    /\ \A e \in Scored : e.score <= 100
    /\ \A i \in 1..Len(contributors) :
          /\ contributors[i].score = posted[i].score
          /\ contributors[i].score <= 100

(* The form with every bonus at its highest: 8 fit answers, a track of     *)
(* weight 18, the comp, assets, website, company and authority bonuses     *)
C17_Witness ==
    \E i \in 1..Len(contributors) :
        LET f == posted[i].form
        IN /\ filled_count(fit_fields_of(f)) = 8
           /\ track_weights(TrackOf(f)) = 18
           /\ OtherBonuses(f) = 10 + 10 + 6 + 4 + 16 + 10
           /\ contributors[i].score = 74

----------------------------------------------------------------------------
(* Properties of the contributors table *)

ContributorIds == 1..Len(contributors)
(* A row but for its status *)
Submitted(row) == [row EXCEPT !.status = ""]

(* C18: score and rail are fixed at creation.  A row is inserted with      *)
(* status 'new' and the score and rail computed from its form; every step  *)
(* keeps every row at its id with its score, its rail and every submitted  *)
(* field; and a step that changes a status changes the status of one row,  *)
(* the one whose id the admin update names, and nothing else.              *)
C18_ScoreAndRailFixedAtCreation ==
    [][/\ Len(contributors') >= Len(contributors)
       /\ \A i \in ContributorIds :
             Submitted(contributors'[i]) = Submitted(contributors[i])
       /\ \A i \in (Len(contributors) + 1)..Len(contributors') :
             /\ contributors'[i].status = "new"
             /\ contributors'[i].score = score_of(posted'[i].form)
             /\ contributors'[i].rail = rail_of(posted'[i].form, contributors'[i].score)
       /\ (\E i \in ContributorIds : contributors'[i].status # contributors[i].status)
             => /\ \E id \in ContributorIds, status \in StatusInputs :
                      contributors' = [contributors EXCEPT ![id].status = status]
                /\ UNCHANGED <<listing, posted>>]_vars

(* The admin has set the status of the first of two submissions; the other *)
(* is still new, and both hold the score and rail they were given          *)
C18_Witness ==
    /\ Len(contributors) = 2
    /\ contributors[1].status = "contacted"
    /\ contributors[2].status = "new"
    /\ \A i \in ContributorIds :
          /\ contributors[i].score = posted[i].score
          /\ contributors[i].rail = posted[i].rail
    /\ contributors[1].score # contributors[2].score

(* The rows of the page, and the ids they show *)
Listed == {listing.rows[k] : k \in 1..Len(listing.rows)}
Unfiltered == listing.rail = "" /\ listing.min_score = {} /\ ~truthy(listing.track)

(* The row shows what was posted and answered for submission i *)
ShowsSubmission(r, i) ==
    /\ r.id = i
    /\ \A field \in DOMAIN posted[i].form : r[field] = posted[i].form[field]
    /\ r.score = posted[i].score
    /\ r.rail = posted[i].rail

(* C19: the admin listing returns every field of a submission as it was    *)
(* written at creation: each row shown carries the posted value of every   *)
(* field and the score and rail computed then, however many submissions    *)
(* were made since; and the page asked without a filter shows every        *)
(* submission, once.                                                       *)
C19_ListingReturnsWhatWasPosted ==
    listing.shown =>
        /\ \A r \in Listed : r.id \in ContributorIds /\ ShowsSubmission(r, r.id)
        /\ Unfiltered =>
              /\ \A i \in ContributorIds : \E r \in Listed : ShowsSubmission(r, i)
              /\ Len(listing.rows) = Len(contributors)

(* The page shows two submissions, the later one first for its higher      *)
(* score, and the track of one with the blanks and capitals it was posted  *)
(* with                                                                    *)
C19_Witness ==
    /\ listing.shown /\ Unfiltered
    /\ Len(listing.rows) = 2
    /\ listing.rows[1].id = 2
    /\ listing.rows[1].score > listing.rows[2].score
    /\ \E r \in Listed : r.contribution_track = t_Sales_Growth_padded
    /\ \E r \in Listed : r.status = "contacted"

----------------------------------------------------------------------------
(* Properties of the use of a token *)

(* The step in which the gate is asked *)
GateStep == resp = NoResp /\ resp'.op = "dashboard"
(* The token has a row that is not expired after the step *)
LiveAfter(t) == \E i \in LinkIds : t \in TokensOf(i) /\ now' <= ExpiresAt(i)

(* C20: validation does not consume a token.  The step in which the gate   *)
(* validates a token writes neither magic_links nor subscribers, and the   *)
(* same call made again gives the same answer; and whatever the step, a    *)
(* token that validates before it and is not expired after it validates    *)
(* after it, to the same email.                                            *)
C20_ValidationDoesNotConsume ==
    [][/\ GateStep =>
            /\ UNCHANGED <<magic_links, subscribers>>
            /\ \A t \in TokenInputs :
                  resp'.token = t =>
                     /\ validate_magic_link(t)' = validate_magic_link(t)
                     /\ require_subscriber_token(t)' = require_subscriber_token(t)
       /\ \A t \in Tokens :
             (validate_magic_link(t) # None /\ LiveAfter(t))
                 => validate_magic_link(t)' = validate_magic_link(t)]_vars

(* The gate has let a token in hours after it was issued, and the token    *)
(* validates still                                                         *)
C20_Witness ==
    /\ resp.op = "dashboard" /\ resp.err = NoError
    /\ \E i \in LinkIds :
          /\ resp.token \in TokensOf(i)
          /\ fromisoformat(magic_links[i].created_at) < now
          /\ now < ExpiresAt(i)
          /\ validate_magic_link(resp.token) = resp.email

----------------------------------------------------------------------------
(* Properties of the status of a grant *)

(* The status the gate reads for an email: that of its first row *)
StatusOf(email) ==
    IF SubscriberIds(email) = {} THEN None
    ELSE subscribers[Min(SubscriberIds(email))].status
NotActive == HTMLResponse("Subscription not active.", 403)
(* The step is the webhook's handling of customer.subscription.deleted *)
Cancellation(id) ==
    stripe_webhook_body(Event("customer.subscription.deleted", NoSession, id), TRUE)
(* The email's row holds the subscription reference id *)
Matches(id, email) ==
    \E i \in SubscriberIds(email) : subscribers[i].stripe_subscription_id = id
(* The step is the grant of /success, of checkout.session.completed or of *)
(* /dev/generate-token for the email                                       *)
Confirms(email) == CopiesIn(email, pending') > CopiesIn(email, pending)
(* The tokens that validate to the email after the step *)
LiveTokensAfter(email) == {t \in Tokens : validate_magic_link(t)' = email}

(* C21: the status of the grant alone decides what the holder of a valid   *)
(* token gets.  A cancellation whose subscription id is the one stored in  *)
(* an email's row leaves the row canceled; a canceled row stays canceled   *)
(* through every step that is not a confirmation (/success, the completed  *)
(* checkout event, the developer override) for that email; while it is     *)
(* canceled the gate answers every unexpired token of the email with 403   *)
(* "Subscription not active."; and after a confirmation for the email the  *)
(* gate lets every unexpired token of the email in, those issued before    *)
(* the cancellation included.                                              *)
C21_StatusAloneDecidesAccess ==
    [][\A e \in Emails :
          /\ \A id \in DeletedSubscriptionIds :
                (Cancellation(id) /\ Matches(id, e)) => StatusOf(e)' = "canceled"
          /\ (StatusOf(e) = "canceled" /\ ~Confirms(e)) => StatusOf(e)' = "canceled"
          /\ StatusOf(e)' = "canceled" =>
                \A t \in LiveTokensAfter(e) :
                    require_subscriber_token(t)' = [email |-> None, err |-> NotActive]
          /\ Confirms(e) =>
                /\ StatusOf(e)' = "active"
                /\ \A t \in LiveTokensAfter(e) :
                      require_subscriber_token(t)' = [email |-> e, err |-> NoError]
          /\ (GateStep /\ resp'.token \in LiveTokensAfter(e)) =>
                resp'.err = IF StatusOf(e) = "active" THEN NoError ELSE NotActive]_vars

(* The gate has answered 403 to an unexpired token of an email whose grant *)
(* was confirmed, then canceled by an event carrying its subscription id   *)
C21_Witness ==
    /\ resp.op = "dashboard" /\ resp.err = NotActive
    /\ \E e \in Emails :
          /\ validate_magic_link(resp.token) = e
          /\ StatusOf(e) = "canceled"
          /\ \E i \in SubscriberIds(e) :
                /\ subscribers[i].stripe_subscription_id = SubscriptionOf(e)
                /\ fromisoformat(subscribers[i].updated_at)
                     > fromisoformat(subscribers[i].created_at)

----------------------------------------------------------------------------
(* Properties of the two tables together *)

(* The emails of the requests that have granted and not yet issued *)
Issuing == BagToSet(pending)

(* C22: every row of magic_links carries an email that has a row in       *)
(* subscribers, in every state, those between the two writes of /success, *)
(* of the webhook and of /dev/generate-token included, whatever the       *)
(* interleaving of the requests: the token a request is about to insert   *)
(* is for an email whose grant is already committed, and no row of        *)
(* subscribers is ever removed.                                           *)
C22_EveryTokenHasAGrantRow ==
    /\ \A i \in 1..Len(magic_links) : SubscriberIds(magic_links[i].email) # {}
    /\ \A e \in Issuing : SubscriberIds(e) # {}

(* A request has granted one email and not yet issued its token, while    *)
(* the table holds the token of another email whose grant was canceled    *)
C22_Witness ==
    /\ Len(magic_links) > 0
    /\ \E e \in Issuing :
          /\ SubscriberIds(e) # {}
          /\ \A i \in 1..Len(magic_links) :
                /\ magic_links[i].email # e
                /\ \E j \in SubscriberIds(magic_links[i].email) :
                      subscribers[j].status = "canceled"

====
